---------------------------- MODULE Spec2Model ----------------------------
(***************************************************************************)
(* A model of the PDF-to-Excel consolidation program (code_base.py, with   *)
(* code_gui.py carrying the same helpers): the field extractor, the sheet  *)
(* provisioner, the row writer and the workbook orchestrator (main).       *)
(*                                                                         *)
(* Text is a sequence of symbols.  A symbol is one character (" ", "\n",   *)
(* "\r", a digit, ".", "-") or a word the program never looks inside       *)
(* ("TEMPLATE", "FECHA", ...).  A spreadsheet is modelled by what the      *)
(* program reads back from it: per sheet the grid of cells (value, font,   *)
(* border, fill), the column widths and the merged ranges.                 *)
(***************************************************************************)
EXTENDS Integers, Sequences, FiniteSets, TLC

VARIABLES
    pc,            \* position of main()
    docs,          \* the PDF files of the input folder, in os.listdir order
    di,            \* number of documents already processed by the loop at 269
    all_data,      \* the rows extracted so far (list of dicts)
    tplFile,       \* PLANTILLA.xlsx on disk: "absent", "good" or "corrupt"
    outFile,       \* the file at the output path
    outFile0,      \* history: the file at the output path when main() started
    backups,       \* the files of the .old directory written by this run
    mode,          \* "none", "update" or "create"
    workbook,      \* the in-memory workbook
    data_by_batea, \* create mode: the groups, in dict insertion order
    ri,            \* rows (update) or groups (create) already dispatched
    saved,         \* outcome of the save step
    closed,        \* workbook.close() was called
    log,           \* the lines printed about sheets and rows, oldest first
    fin,           \* input of the pure function under check
    fout,          \* its result
    prev,          \* what an earlier run of main on the same paths left behind
    gui            \* the window of code_gui.py, its worker and the worker's files

vars == <<pc, docs, di, all_data, tplFile, outFile, outFile0, backups, mode,
          workbook, data_by_batea, ri, saved, closed, log, fin, fout, prev, gui>>

---------------------------------------------------------------------------
(* Bounds of the model *)

MaxDocs == 3
MaxStrLen == 3
MaxFields == 2

---------------------------------------------------------------------------
(* Text *)

Whitespace == {" ", "\n", "\r"}

RECURSIVE LStrip(_)
LStrip(s) == IF s # <<>> /\ Head(s) \in Whitespace THEN LStrip(Tail(s)) ELSE s

RECURSIVE RStrip(_)
RStrip(s) ==
    IF s # <<>> /\ s[Len(s)] \in Whitespace
    THEN RStrip(SubSeq(s, 1, Len(s) - 1))
    ELSE s

\* str.strip()
Strip(s) == RStrip(LStrip(s))

\* str.replace(old, new) for one-character old and new
Replace(s, old, new) == [i \in 1..Len(s) |-> IF s[i] = old THEN new ELSE s[i]]

\* A clean-up that forgets the carriage return
CleanNewlinesOnlyLF(s) == Replace(s, "\n", " ")

\* text.replace('\n', ' ').replace('\r', ' ')
CleanNewlines(s) == Replace(Replace(s, "\n", " "), "\r", " ")

\* s.split(" ")[0]: the text before the first space
RECURSIVE FirstToken(_)
FirstToken(s) ==
    IF s = <<>> \/ Head(s) = " " THEN <<>> ELSE <<Head(s)>> \o FirstToken(Tail(s))

\* d.get(k, default)
Get(d, k, default) == IF k \in DOMAIN d THEN d[k] ELSE default

---------------------------------------------------------------------------
(* float(s) *)

Digits == {"0", "1", "2", "5"}

DigitVal(c) == CASE c = "0" -> 0 [] c = "1" -> 1 [] c = "2" -> 2 [] c = "5" -> 5

Unsigned(s) == IF s # <<>> /\ Head(s) \in {"-", "+"} THEN Tail(s) ELSE s

\* float() accepts surrounding whitespace, one optional sign, and digits with
\* at most one decimal point and at least one digit.
IsFloatLiteral(s) ==
    LET b == Unsigned(Strip(s)) IN
    /\ \A i \in 1..Len(b) : b[i] \in Digits \cup {"."}
    /\ \E i \in 1..Len(b) : b[i] \in Digits
    /\ Cardinality({i \in 1..Len(b) : b[i] = "."}) <= 1

RECURSIVE DigitsValue(_)
DigitsValue(s) ==
    IF s = <<>> THEN 0 ELSE 10 * DigitsValue(SubSeq(s, 1, Len(s) - 1)) + DigitVal(s[Len(s)])

RECURSIVE Normalize(_, _)
Normalize(mant, scale) ==
    IF scale > 0 /\ mant % 10 = 0 THEN Normalize(mant \div 10, scale - 1)
    ELSE <<mant, scale>>

\* The number float(s) denotes: mant / 10^scale, negated when neg.
FloatValue(s) ==
    LET t == Strip(s)
        b == Unsigned(t)
        dots == {i \in 1..Len(b) : b[i] = "."}
        scale == IF dots = {} THEN 0 ELSE Len(b) - (CHOOSE i \in dots : TRUE)
        ds == SelectSeq(b, LAMBDA c : c # ".")
        n == Normalize(DigitsValue(ds), scale)
    IN [neg |-> t # <<>> /\ Head(t) = "-", mant |-> n[1], scale |-> n[2]]

---------------------------------------------------------------------------
(* Cells, rows, sheets *)

NoNumber == [neg |-> FALSE, mant |-> 0, scale |-> 0]
NoneValue == [t |-> "none", s |-> <<>>, n |-> NoNumber]
TextValue(s) == [t |-> "s", s |-> s, n |-> NoNumber]
NumValue(n) == [t |-> "n", s |-> <<>>, n |-> n]

\* A cell openpyxl creates on first access
EmptyCell == [value |-> NoneValue, font |-> "default", border |-> "none", fill |-> "none"]

EmptyRow == <<>>

CellAt(rows, r, c) ==
    IF r \in 1..Len(rows) /\ c \in DOMAIN rows[r] THEN rows[r][c] ELSE EmptyCell

PadRows(rows, r) ==
    [i \in 1..(IF r > Len(rows) THEN r ELSE Len(rows)) |->
        IF i <= Len(rows) THEN rows[i] ELSE EmptyRow]

\* sheet.cell(row=r, column=c) followed by assignments making the cell `cell`
SetCell(rows, r, c, cell) ==
    LET p == PadRows(rows, r) IN
    [p EXCEPT ![r] = (c :> cell) @@ p[r]]

---------------------------------------------------------------------------
(* Program constants *)

HeaderRow == 4
TargetRow == 5
BorderLastCol == 14

TemplateName == <<"TEMPLATE">>
UnknownBatea == <<"UNKNOWN_BATEA">>
ErrorText == <<"ERROR">>

\* field_to_header_map, in dict order; every field maps to the header of the
\* same name
FieldOrder ==
    <<"FECHA", "BATEA", "EMPRESA", "NIF EMPRESA", "KG BRUTOS", "DESCUENTO", "KG NETOS">>

HeaderOf(field_name) == <<field_name>>

---------------------------------------------------------------------------
(* openpyxl operations used by the program *)

\* No insertion at all: the row at idx stays where it is and is written over
InsertRowsNothing(rows, idx) == rows

\* sheet.insert_rows(idx): the cells of rows >= idx move down by one; column
\* widths and merged ranges are left as they are
InsertRows(rows, idx) ==
    IF idx > Len(rows) THEN rows
    ELSE SubSeq(rows, 1, idx - 1) \o <<EmptyRow>> \o SubSeq(rows, idx, Len(rows))

\* workbook.copy_worksheet(sheet): cells with their styles, dimensions and
\* merged ranges
CopyWorksheet(sheet) ==
    [rows |-> sheet.rows, widths |-> sheet.widths, merged |-> sheet.merged]

---------------------------------------------------------------------------
(* copy_sheet_properties *)

\* The style of a copied cell: font, border, number format, protection and
\* alignment are rebuilt from the source; the fill is not copied.
CopyCellProperties(cell) ==
    [value |-> cell.value, font |-> cell.font, border |-> cell.border, fill |-> "none"]

copy_sheet_properties(source_sheet) ==
    [rows |-> [r \in 1..Len(source_sheet.rows) |->
                  [c \in DOMAIN source_sheet.rows[r] |->
                      CopyCellProperties(source_sheet.rows[r][c])]],
     widths |-> source_sheet.widths,
     merged |-> source_sheet.merged]

---------------------------------------------------------------------------
(* get_header_map *)

\* if cell.value: None, "" and 0 are falsy
Truthy(v) ==
    \/ v.t = "s" /\ v.s # <<>>
    \/ v.t = "n" /\ v.n.mant # 0

HeaderCells(sheet, header_row) ==
    IF header_row \in 1..Len(sheet.rows) THEN sheet.rows[header_row] ELSE EmptyRow

\* header name -> column; a later column with the same name wins
get_header_map(sheet, header_row) ==
    LET cells == HeaderCells(sheet, header_row)
        named == {c \in DOMAIN cells : cells[c].value.t = "s" /\ Truthy(cells[c].value)}
        names == {Strip(cells[c].value.s) : c \in named}
        Max(S) == CHOOSE m \in S : \A x \in S : x <= m
    IN [h \in names |-> Max({c \in named : Strip(cells[c].value.s) = h})]

---------------------------------------------------------------------------
(* write_data_to_sheet *)

\* A border loop that stops one column early: range(1, 14)
RECURSIVE ApplyBorderShort(_, _, _)
ApplyBorderShort(rows, target_row, col_idx) ==
    IF col_idx > BorderLastCol - 1 THEN rows
    ELSE ApplyBorderShort(
            SetCell(rows, target_row, col_idx,
                    [CellAt(rows, target_row, col_idx) EXCEPT !.border = "thin"]),
            target_row, col_idx + 1)

\* for col_idx in range(1, 15): cell.border = thin_border
RECURSIVE ApplyBorder(_, _, _)
ApplyBorder(rows, target_row, col_idx) ==
    IF col_idx > BorderLastCol THEN rows
    ELSE ApplyBorder(
            SetCell(rows, target_row, col_idx,
                    [CellAt(rows, target_row, col_idx) EXCEPT !.border = "thin"]),
            target_row, col_idx + 1)

\* A writer that never tries the numeric coercion
TypedValueAlwaysText(value_to_write) == TextValue(value_to_write)

\* try: float(value) ... except (ValueError, TypeError): the original string
TypedValue(value_to_write) ==
    IF IsFloatLiteral(value_to_write)
    THEN NumValue(FloatValue(value_to_write))
    ELSE TextValue(value_to_write)

\* cell = sheet.cell(row, column, value); cell.font = black_font
WriteField(rows, header_map, data_row, target_row, field_name) ==
    IF HeaderOf(field_name) \in DOMAIN header_map
    THEN LET col_idx == header_map[HeaderOf(field_name)]
             old == CellAt(rows, target_row, col_idx)
         IN SetCell(rows, target_row, col_idx,
                    [old EXCEPT !.value = TypedValue(Get(data_row, field_name, <<>>)),
                                !.font = "black"])
    ELSE rows

\* A field loop that ends at the first field whose header is missing
RECURSIVE WriteFieldsUntilMissing(_, _, _, _, _)
WriteFieldsUntilMissing(rows, header_map, data_row, target_row, k) ==
    IF k > Len(FieldOrder) \/ HeaderOf(FieldOrder[k]) \notin DOMAIN header_map THEN rows
    ELSE WriteFieldsUntilMissing(
            WriteField(rows, header_map, data_row, target_row, FieldOrder[k]),
            header_map, data_row, target_row, k + 1)

RECURSIVE WriteFields(_, _, _, _, _)
WriteFields(rows, header_map, data_row, target_row, k) ==
    IF k > Len(FieldOrder) THEN rows
    ELSE WriteFields(
            WriteField(rows, header_map, data_row, target_row, FieldOrder[k]),
            header_map, data_row, target_row, k + 1)

\* A row writer that inserts and writes one row too high, on the header row
write_data_on_header(sheet, header_map, data_row, target_row) ==
    LET inserted == InsertRows(sheet.rows, target_row - 1)
        bordered == ApplyBorder(inserted, target_row - 1, 1)
    IN [sheet EXCEPT !.rows = WriteFields(bordered, header_map, data_row, target_row - 1, 1)]

write_data_to_sheet(sheet, header_map, data_row, target_row) ==
    LET inserted == InsertRows(sheet.rows, target_row)
        bordered == ApplyBorder(inserted, target_row, 1)
    IN [sheet EXCEPT !.rows = WriteFields(bordered, header_map, data_row, target_row, 1)]

---------------------------------------------------------------------------
(* get_or_create_sheet *)

NoSheet == <<>>

sheetnames(wb) == DOMAIN wb

\* A provisioner that falls back to a blank sheet when the template is absent
get_or_create_blank(wb, batea_name, template_sheet_name) ==
    IF batea_name \in sheetnames(wb)
    THEN [wb |-> wb, sheet |-> batea_name]
    ELSE IF template_sheet_name \notin sheetnames(wb)
    THEN [wb |-> (batea_name :> [rows |-> <<>>, widths |-> <<>>, merged |-> {}]) @@ wb,
          sheet |-> batea_name]
    ELSE [wb |-> (batea_name :> CopyWorksheet(wb[template_sheet_name])) @@ wb,
          sheet |-> batea_name]

\* Returns the workbook after the call and the title of the returned sheet,
\* NoSheet standing for None.  Titles in the model never differ by case alone
\* and hold no character a sheet title may not hold, so the title assignment
\* at the end of the function names the clone batea_name.
get_or_create_sheet(wb, batea_name, template_sheet_name) ==
    IF batea_name \in sheetnames(wb)
    THEN [wb |-> wb, sheet |-> batea_name]
    ELSE IF template_sheet_name \notin sheetnames(wb)
    THEN [wb |-> wb, sheet |-> NoSheet]
    ELSE [wb |-> (batea_name :> CopyWorksheet(wb[template_sheet_name])) @@ wb,
          sheet |-> batea_name]

---------------------------------------------------------------------------
(* extract_data_from_pdf *)

\* The text PyMuPDF finds inside the descriptor's rectangle on its page
ClipText(doc, field) == Get(doc.text, field.name, <<>>)

\* A range check that is off by one: page_num > doc.page_count.  load_page
\* then raises for page_num = page_count and the field is recorded as "ERROR".
ExtractFieldOffByOne(doc, field) ==
    IF field.page > doc.page_count THEN <<>>
    ELSE IF field.page >= doc.page_count \/ field.rect # "ok" \/ field.name \in doc.damaged
    THEN ErrorText
    ELSE CleanNewlines(Strip(ClipText(doc, field)))

\* One iteration of the loop over the descriptors.  A descriptor whose
\* rectangle cannot be built, or whose area of the page PyMuPDF cannot read
\* in this document, raises inside the try and is recorded as "ERROR".
ExtractField(doc, field) ==
    IF field.page >= doc.page_count THEN <<>>
    ELSE IF field.rect # "ok" \/ field.name \in doc.damaged THEN ErrorText
    ELSE CleanNewlines(Strip(ClipText(doc, field)))

RECURSIVE ExtractFields(_, _, _, _)
ExtractFields(doc, fields, k, extracted_data) ==
    IF k > Len(fields) THEN extracted_data
    ELSE ExtractFields(doc, fields, k + 1,
            (fields[k].name :> ExtractField(doc, fields[k])) @@ extracted_data)

NoData == [ok |-> FALSE, data |-> <<>>]

\* NoData stands for the None returned when the document cannot be opened
extract_data_from_pdf(doc, fields) ==
    IF ~doc.opens THEN NoData
    ELSE [ok |-> TRUE, data |-> ExtractFields(doc, fields, 1, <<>>)]

---------------------------------------------------------------------------
(* The input of a run: configuration, documents, template file, output file *)

\* config['extraction_fields']: the seven fields, all on page 0
ConfigFields ==
    [k \in 1..Len(FieldOrder) |-> [name |-> FieldOrder[k], page |-> 0, rect |-> "ok"]]

FileNames == <<"1.pdf", "2.pdf", "3.pdf", "4.pdf", "5.pdf">>
Companies == <<"ACME-1", "ACME-2", "ACME-3", "ACME-4", "ACME-5">>

\* The BATEA texts a document may carry
RawBatea ==
    { <<>>, <<"A">>, <<" ", "A", "\n">>, <<"B">>, <<"TEMPLATE">>, <<"A", "\n", "B">> }

\* The i-th document of the folder: its company names it, its BATEA text is b
Document(i, b) ==
    [name |-> <<FileNames[i]>>,
     opens |-> TRUE,
     page_count |-> 1,
     damaged |-> {},
     text |-> [f \in {FieldOrder[k] : k \in 1..Len(FieldOrder)} |->
                 CASE f = "FECHA" -> <<"12/05/2024", " ", "10:30">>
                   [] f = "BATEA" -> b
                   [] f = "EMPRESA" -> <<Companies[i]>>
                   [] f = "NIF EMPRESA" -> <<"A-102">>
                   [] f = "KG BRUTOS" -> <<"1", "5", "0", "0", ".", "5", "0">>
                   [] f = "DESCUENTO" -> <<>>
                   [] f = "KG NETOS" -> <<"1", "2", "\n">>]]

\* A file fitz.open() rejects
BrokenDocument(i) ==
    [name |-> <<FileNames[i]>>, opens |-> FALSE, page_count |-> 0, damaged |-> {},
     text |-> <<>>]

DocChoices ==
    {[opens |-> TRUE, batea |-> b] : b \in RawBatea} \cup {[opens |-> FALSE, batea |-> <<>>]}

MakeDocument(i, choice) ==
    IF choice.opens THEN Document(i, choice.batea) ELSE BrokenDocument(i)

StyledText(s, font, fill) ==
    [value |-> TextValue(s), font |-> font, border |-> "thin", fill |-> fill]

\* The sheet of PLANTILLA.xlsx: a merged title in row 1, the header in row 4
TemplateSheet ==
    [rows |-> << (1 :> StyledText(<<"REGISTRO">>, "bold", "none")),
                 EmptyRow,
                 EmptyRow,
                 (1 :> StyledText(<<"FECHA">>, "bold", "grey"))
                 @@ (2 :> StyledText(<<"ALBARAN">>, "bold", "grey"))
                 @@ (3 :> StyledText(<<"BATEA">>, "bold", "grey"))
                 @@ (4 :> StyledText(<<"EMPRESA">>, "bold", "grey"))
                 @@ (5 :> StyledText(<<"NIF EMPRESA">>, "bold", "grey"))
                 @@ (8 :> StyledText(<<"KG BRUTOS">>, "bold", "grey"))
                 @@ (9 :> StyledText(<<"DESCUENTO", " ">>, "bold", "grey"))
                 @@ (10 :> StyledText(<<" ", "KG NETOS">>, "bold", "grey")) >>,
     widths |-> (1 :> 12) @@ (4 :> 30),
     merged |-> {<<1, 1, 1, 14>>}]

\* PLANTILLA.xlsx holds that one sheet, under the name of its author's choice
TemplateFileSheets == (<<"Hoja1">> :> TemplateSheet)

NoFile == [kind |-> "absent", sheets |-> <<>>]
CorruptFile == [kind |-> "corrupt", sheets |-> <<>>]
WorkbookFile(sheets) == [kind |-> "wb", sheets |-> sheets]

\* A sheet an earlier run delivered: the template with one data row
OldSheet ==
    write_data_to_sheet(TemplateSheet, get_header_map(TemplateSheet, HeaderRow),
        ("FECHA" :> <<"01/01/2024">>) @@ ("BATEA" :> <<"A">>)
        @@ ("EMPRESA" :> <<"OLD">>) @@ ("KG NETOS" :> <<"5">>), TargetRow)

\* A sheet two earlier runs wrote to: two data rows below its header
TwoRowSheet ==
    write_data_to_sheet(OldSheet, get_header_map(OldSheet, HeaderRow),
        ("FECHA" :> <<"02/01/2024">>) @@ ("BATEA" :> <<"A">>)
        @@ ("EMPRESA" :> <<"OLDER">>) @@ ("KG NETOS" :> <<"2">>), TargetRow)

\* What may be at the output path when the run starts
OutputFiles ==
    { NoFile,
      CorruptFile,
      WorkbookFile((<<"A">> :> OldSheet)),
      WorkbookFile((<<"A">> :> TwoRowSheet) @@ (TemplateName :> TemplateSheet)),
      WorkbookFile((TemplateName :> TemplateSheet)) }

NoWorkbook == <<>>

---------------------------------------------------------------------------
(* main: extraction of the batch *)

NoPure == <<>>

\* No earlier run
NoRun == [ran |-> FALSE, mode |-> "none", saved |-> "no", file |-> NoFile]

\* The program is run from the command line: there is no window
NoGui ==
    [button |-> "none", threads |-> 0, pending |-> 0, runs |-> 0, dialog |-> "none",
     pc |-> "idle", di |-> 0, all_data |-> <<>>, outFile |-> NoFile, backups |-> <<>>,
     mode |-> "none", workbook |-> NoWorkbook, data_by_batea |-> <<>>, ri |-> 0,
     saved |-> "no", closed |-> FALSE, log |-> <<>>]

Init ==
    /\ pc = "extract"
    /\ \E n \in 1..MaxDocs : \E ch \in [1..n -> DocChoices] :
          docs = [i \in 1..n |-> MakeDocument(i, ch[i])]
    /\ di = 0
    /\ all_data = <<>>
    /\ tplFile \in {"absent", "good", "corrupt"}
    /\ outFile \in OutputFiles
    /\ outFile0 = outFile
    /\ backups = <<>>
    /\ mode = "none"
    /\ workbook = NoWorkbook
    /\ data_by_batea = <<>>
    /\ ri = 0
    /\ saved = "no"
    /\ closed = FALSE
    /\ log = <<>>
    /\ fin = NoPure
    /\ fout = NoPure
    /\ prev = NoRun
    /\ gui = NoGui

\* if data: ... all_data.append(data)
WithSource(data, filename) ==
    ("Source File" :> filename) @@ [data EXCEPT !["FECHA"] = FirstToken(data["FECHA"])]

\* A loop over the files that gives up at the first document that does not
\* open or that has a field recorded as "ERROR"
ProcessPdfStopAtFailure ==
    /\ pc = "extract"
    /\ di < Len(docs)
    /\ LET doc == docs[di + 1]
           r == extract_data_from_pdf(doc, ConfigFields)
           failed == ~r.ok \/ \E f \in DOMAIN r.data : r.data[f] = ErrorText
       IN /\ all_data' = IF r.ok /\ DOMAIN r.data # {} /\ ~failed
                         THEN Append(all_data, WithSource(r.data, doc.name))
                         ELSE all_data
          /\ di' = IF failed THEN Len(docs) ELSE di + 1
    /\ UNCHANGED <<pc, docs, tplFile, outFile, outFile0, backups, mode, workbook,
                   data_by_batea, ri, saved, closed, log, fin, fout, prev, gui>>

\* One iteration of `for filename in pdf_files`
ProcessPdf ==
    /\ pc = "extract"
    /\ di < Len(docs)
    /\ LET doc == docs[di + 1]
           r == extract_data_from_pdf(doc, ConfigFields)
       IN all_data' = IF r.ok /\ DOMAIN r.data # {}
                      THEN Append(all_data, WithSource(r.data, doc.name))
                      ELSE all_data
    /\ di' = di + 1
    /\ UNCHANGED <<pc, docs, tplFile, outFile, outFile0, backups, mode, workbook,
                   data_by_batea, ri, saved, closed, log, fin, fout, prev, gui>>

\* if not all_data: return; if not os.path.exists(template_path): return
CheckInputs ==
    /\ pc = "extract"
    /\ di = Len(docs)
    /\ pc' = IF all_data = <<>> \/ tplFile = "absent" THEN "done" ELSE "choose"
    /\ UNCHANGED <<docs, di, all_data, tplFile, outFile, outFile0, backups, mode,
                   workbook, data_by_batea, ri, saved, closed, log, fin, fout, prev, gui>>

\* A choice of mode with the test of existence inverted
ChooseModeInverted ==
    /\ pc = "choose"
    /\ mode' = IF outFile.kind = "absent" THEN "update" ELSE "create"
    /\ pc' = IF outFile.kind = "absent" THEN "backup" ELSE "group"
    /\ UNCHANGED <<docs, di, all_data, tplFile, outFile, outFile0, backups,
                   workbook, data_by_batea, ri, saved, closed, log, fin, fout, prev, gui>>

\* if os.path.exists(output_filename)
ChooseMode ==
    /\ pc = "choose"
    /\ mode' = IF outFile.kind # "absent" THEN "update" ELSE "create"
    /\ pc' = IF outFile.kind # "absent" THEN "backup" ELSE "group"
    /\ UNCHANGED <<docs, di, all_data, tplFile, outFile, outFile0, backups,
                   workbook, data_by_batea, ri, saved, closed, log, fin, fout, prev, gui>>

---------------------------------------------------------------------------
(* main: update mode *)

\* The backup try block: shutil.copy either writes the dated copy or raises,
\* and the run goes on either way.
BackupLine(copied) ==
    [op |-> IF copied THEN "backup" ELSE "backup_failed", src |-> <<>>, sheet |-> <<>>]

\* A backup step that reports success without leaving a copy
BackupCopyLost(dir, file) == dir

\* shutil.copy(output_filename, backup_path)
BackupCopy(dir, file) == Append(dir, file)

Backup ==
    /\ pc = "backup"
    /\ \E copied \in BOOLEAN :
          /\ backups' = IF copied THEN BackupCopy(backups, outFile) ELSE backups
          /\ log' = Append(log, BackupLine(copied))
    /\ pc' = "load"
    /\ UNCHANGED <<docs, di, all_data, tplFile, outFile, outFile0, mode, workbook,
                   data_by_batea, ri, saved, closed, fin, fout, prev, gui>>

\* workbook = load_workbook(output_filename), or return on error
LoadExisting ==
    /\ pc = "load"
    /\ IF outFile.kind = "wb"
       THEN workbook' = outFile.sheets /\ pc' = "template"
       ELSE workbook' = workbook /\ pc' = "done"
    /\ UNCHANGED <<docs, di, all_data, tplFile, outFile, outFile0, backups, mode,
                   data_by_batea, ri, saved, closed, log, fin, fout, prev, gui>>

\* template_wb.active of PLANTILLA.xlsx
ActiveSheet(sheets) == sheets[CHOOSE n \in DOMAIN sheets : TRUE]

\* if "TEMPLATE" not in workbook.sheetnames: rebuild it from PLANTILLA.xlsx,
\* or return when that file is missing or cannot be loaded
EnsureTemplate ==
    /\ pc = "template"
    /\ IF TemplateName \in sheetnames(workbook)
       THEN workbook' = workbook /\ pc' = "rows"
       ELSE IF tplFile # "good"
       THEN workbook' = workbook /\ pc' = "done"
       ELSE /\ workbook' = (TemplateName :> copy_sheet_properties(ActiveSheet(TemplateFileSheets)))
                           @@ workbook
            /\ pc' = "rows"
    /\ UNCHANGED <<docs, di, all_data, tplFile, outFile, outFile0, backups, mode,
                   data_by_batea, ri, saved, closed, log, fin, fout, prev, gui>>

WriteLine(data_row, sheet) == [op |-> "write", src |-> data_row["Source File"], sheet |-> sheet]
SkipLine(src) == [op |-> "skip", src |-> src, sheet |-> NoSheet]
CloneLine(sheet) == [op |-> "clone", src |-> <<>>, sheet |-> sheet]

\* "Sheet ... not found. Creating it from ...", kept when the CRITICAL ERROR
\* line about a missing template does not follow it: a sheet was cloned
ProvisionLines(wb, batea_name) ==
    IF batea_name \in sheetnames(wb) \/ TemplateName \notin sheetnames(wb)
    THEN <<>>
    ELSE <<CloneLine(batea_name)>>

\* A caller that looks for the next free row and takes the row below the
\* first data row
WriteToSecondRow(wb, name, data_row) ==
    [wb EXCEPT ![name] =
        write_data_to_sheet(wb[name], get_header_map(wb[name], HeaderRow), data_row,
                            TargetRow + 1)]

\* header_map = get_header_map(sheet, header_row=4); target_row = 5;
\* write_data_to_sheet(sheet, header_map, data_row, target_row)
WriteTo(wb, name, data_row) ==
    [wb EXCEPT ![name] =
        write_data_to_sheet(wb[name], get_header_map(wb[name], HeaderRow), data_row, TargetRow)]

\* data_row.get("BATEA", "").strip()
UpdateKey(data_row) == Strip(Get(data_row, "BATEA", <<>>))

\* The body of `for data_row in all_data` (update mode): the workbook after
\* the iteration and the lines it prints
UpdateIteration(wb, data_row) ==
    LET batea == UpdateKey(data_row)
        r == get_or_create_sheet(wb, batea, TemplateName)
    IN IF batea = <<>>
       THEN [wb |-> wb, lines |-> <<SkipLine(data_row["Source File"])>>]
       ELSE IF r.sheet = NoSheet
       THEN [wb |-> wb, lines |-> <<SkipLine(data_row["Source File"])>>]
       ELSE [wb |-> WriteTo(r.wb, r.sheet, data_row),
             lines |-> ProvisionLines(wb, batea) \o <<WriteLine(data_row, batea)>>]

\* One iteration of `for data_row in all_data` (update mode)
UpdateRow ==
    /\ pc = "rows"
    /\ ri < Len(all_data)
    /\ LET it == UpdateIteration(workbook, all_data[ri + 1])
       IN /\ workbook' = it.wb
          /\ log' = log \o it.lines
    /\ ri' = ri + 1
    /\ pc' = IF ri + 1 = Len(all_data) THEN "save" ELSE "rows"
    /\ UNCHANGED <<docs, di, all_data, tplFile, outFile, outFile0, backups, mode,
                   data_by_batea, saved, closed, fin, fout, prev, gui>>

---------------------------------------------------------------------------
(* main: create mode *)

\* The grouping key without the replacement of the empty key
CreateKeyNoSentinel(row) == Strip(Get(row, "BATEA", UnknownBatea))

\* row.get('BATEA', 'UNKNOWN_BATEA').strip(), the empty key replaced
CreateKey(row) ==
    LET batea == Strip(Get(row, "BATEA", UnknownBatea)) IN
    IF batea = <<>> THEN UnknownBatea ELSE batea

\* data_by_batea[batea].append(row), a new key going last
AddToGroup(groups, batea, row) ==
    IF \E g \in 1..Len(groups) : groups[g].batea = batea
    THEN [g \in 1..Len(groups) |->
            IF groups[g].batea = batea
            THEN [groups[g] EXCEPT !.rows = Append(@, row)]
            ELSE groups[g]]
    ELSE Append(groups, [batea |-> batea, rows |-> <<row>>])

RECURSIVE GroupByBatea(_, _, _)
GroupByBatea(rows, k, groups) ==
    IF k > Len(rows) THEN groups
    ELSE GroupByBatea(rows, k + 1, AddToGroup(groups, CreateKey(rows[k]), rows[k]))

\* shutil.copy(template_path, output_filename)
CopyOfTemplateFile ==
    IF tplFile = "good" THEN WorkbookFile(TemplateFileSheets) ELSE CorruptFile

\* A create mode that builds the workbook from PLANTILLA.xlsx in memory and
\* puts nothing at the output path before the save
GroupAndCopyNothing ==
    /\ pc = "group"
    /\ data_by_batea' = GroupByBatea(all_data, 1, <<>>)
    /\ outFile' = outFile
    /\ pc' = "load_new"
    /\ UNCHANGED <<docs, di, all_data, tplFile, outFile0, backups, mode, workbook,
                   ri, saved, closed, log, fin, fout, prev, gui>>

\* Group the rows by BATEA, then copy PLANTILLA.xlsx to the output path
GroupAndCopy ==
    /\ pc = "group"
    /\ data_by_batea' = GroupByBatea(all_data, 1, <<>>)
    /\ outFile' = CopyOfTemplateFile
    /\ pc' = "load_new"
    /\ UNCHANGED <<docs, di, all_data, tplFile, outFile0, backups, mode, workbook,
                   ri, saved, closed, log, fin, fout, prev, gui>>

\* A load that leaves the active sheet under the name PLANTILLA.xlsx gave it
RenameActiveForgotten(sheets, title) == sheets

\* template_sheet = workbook.active; template_sheet.title = "TEMPLATE"
RenameActive(sheets, title) ==
    LET active == CHOOSE n \in DOMAIN sheets : TRUE IN
    [n \in (DOMAIN sheets \ {active}) \cup {title} |->
        IF n = title THEN sheets[active] ELSE sheets[n]]

\* workbook = load_workbook(output_filename) and the renaming, or return
LoadNew ==
    /\ pc = "load_new"
    /\ IF outFile.kind = "wb"
       THEN workbook' = RenameActive(outFile.sheets, TemplateName) /\ pc' = "groups"
       ELSE workbook' = workbook /\ pc' = "done"
    /\ UNCHANGED <<docs, di, all_data, tplFile, outFile, outFile0, backups, mode,
                   data_by_batea, ri, saved, closed, log, fin, fout, prev, gui>>

\* for data_row in batea_data: write_data_to_sheet(sheet, header_map, ...)
\* with the header_map read once, before the first row is written
RECURSIVE WriteGroup(_, _, _, _)
WriteGroup(sheet, header_map, batea_data, k) ==
    IF k > Len(batea_data) THEN sheet
    ELSE WriteGroup(write_data_to_sheet(sheet, header_map, batea_data[k], TargetRow),
                    header_map, batea_data, k + 1)

GroupLines(group) ==
    [k \in 1..Len(group.rows) |-> WriteLine(group.rows[k], group.batea)]

\* The body of `for batea_name, batea_data in data_by_batea.items()`
CreateIteration(wb, group) ==
    LET r == get_or_create_sheet(wb, group.batea, TemplateName)
    IN IF r.sheet = NoSheet
       THEN [wb |-> wb, lines |-> <<SkipLine(group.batea)>>]
       ELSE [wb |-> [r.wb EXCEPT ![r.sheet] =
                        WriteGroup(@, get_header_map(@, HeaderRow), group.rows, 1)],
             lines |-> ProvisionLines(wb, group.batea) \o GroupLines(group)]

\* One iteration of `for batea_name, batea_data in data_by_batea.items()`
CreateGroup ==
    /\ pc = "groups"
    /\ ri < Len(data_by_batea)
    /\ LET it == CreateIteration(workbook, data_by_batea[ri + 1])
       IN /\ workbook' = it.wb
          /\ log' = log \o it.lines
    /\ ri' = ri + 1
    /\ pc' = IF ri + 1 = Len(data_by_batea) THEN "save" ELSE "groups"
    /\ UNCHANGED <<docs, di, all_data, tplFile, outFile, outFile0, backups, mode,
                   data_by_batea, saved, closed, fin, fout, prev, gui>>

---------------------------------------------------------------------------
(* main: save and exit *)

\* del workbook["TEMPLATE"]
RemoveSheet(wb, name) == [n \in DOMAIN wb \ {name} |-> wb[n]]

\* A save step that forgets to remove the template sheet
WithoutTemplateKept(wb) == wb

WithoutTemplate(wb) ==
    IF TemplateName \in sheetnames(wb) THEN RemoveSheet(wb, TemplateName) ELSE wb

\* A save that empties the file before it finds out that it may not write
SaveOutcomesTruncatingFirst(wb) ==
    IF DOMAIN wb = {}
    THEN {[saved |-> "error", file |-> CorruptFile]}
    ELSE {[saved |-> "ok", file |-> WorkbookFile(wb)],
          [saved |-> "permission", file |-> CorruptFile],
          [saved |-> "error", file |-> CorruptFile]}

\* workbook.save(filename) opens the file for writing and then writes the
\* sheets.  It raises PermissionError before touching a locked file; any other
\* error may come after the file was truncated.  A workbook without a visible
\* sheet cannot be written.
SaveOutcomes(wb) ==
    IF DOMAIN wb = {}
    THEN {[saved |-> "error", file |-> CorruptFile]}
    ELSE {[saved |-> "ok", file |-> WorkbookFile(wb)],
          [saved |-> "permission", file |-> outFile],
          [saved |-> "error", file |-> outFile],
          [saved |-> "error", file |-> CorruptFile]}

\* A save step that returns from main when the save fails
SaveWorkbookReturnOnError ==
    /\ pc = "save"
    /\ workbook' = WithoutTemplate(workbook)
    /\ \E o \in SaveOutcomes(WithoutTemplate(workbook)) :
          /\ saved' = o.saved
          /\ outFile' = o.file
          /\ pc' = IF o.saved = "ok" THEN "close" ELSE "done"
    /\ UNCHANGED <<docs, di, all_data, tplFile, outFile0, backups, mode,
                   data_by_batea, ri, closed, log, fin, fout, prev, gui>>

\* The try block of step 4: remove the template sheet, then save
SaveWorkbook ==
    /\ pc = "save"
    /\ workbook' = WithoutTemplate(workbook)
    /\ \E o \in SaveOutcomes(WithoutTemplate(workbook)) :
          /\ saved' = o.saved
          /\ outFile' = o.file
    /\ pc' = "close"
    /\ UNCHANGED <<docs, di, all_data, tplFile, outFile0, backups, mode,
                   data_by_batea, ri, closed, log, fin, fout, prev, gui>>

\* workbook.close()
CloseWorkbook ==
    /\ pc = "close"
    /\ closed' = TRUE
    /\ pc' = "done"
    /\ UNCHANGED <<docs, di, all_data, tplFile, outFile, outFile0, backups, mode,
                   workbook, data_by_batea, ri, saved, log, fin, fout, prev, gui>>

Next ==
    \/ ProcessPdf
    \/ CheckInputs
    \/ ChooseMode
    \/ Backup
    \/ LoadExisting
    \/ EnsureTemplate
    \/ UpdateRow
    \/ GroupAndCopy
    \/ LoadNew
    \/ CreateGroup
    \/ SaveWorkbook
    \/ CloseWorkbook

Spec == Init /\ [][Next]_vars

---------------------------------------------------------------------------
(* Properties of a run of main *)

Range(f) == {f[x] : x \in DOMAIN f}

\* The run has dispatched every row or group and still holds its workbook
Dispatched == pc \in {"save", "close"} \/ closed

\* The sheet holds the row extracted from that document below its header:
\* every document of the batch carries its own company name
HoldsRow(sheet, data_row) ==
    \E r \in (HeaderRow + 1)..Len(sheet.rows) : \E c \in DOMAIN sheet.rows[r] :
        sheet.rows[r][c].value = TextValue(data_row["EMPRESA"])

\* C1: whenever the save succeeded, in create mode or in update mode, the
\* workbook written to the output path holds no sheet named "TEMPLATE".
C1_NoTemplateInSavedWorkbook ==
    saved = "ok" => outFile.kind = "wb" /\ TemplateName \notin DOMAIN outFile.sheets

\* A saved update-mode run whose input file held a TEMPLATE sheet that was
\* used for cloning
C1_Witness ==
    /\ saved = "ok"
    /\ mode = "update"
    /\ TemplateName \in DOMAIN outFile0.sheets
    /\ \E i \in 1..Len(log) : log[i].op = "clone"

\* C2: a create-mode run that saved leaves exactly one sheet per distinct
\* category key of the extracted rows (the empty key counted as
\* "UNKNOWN_BATEA") and no sheet named "TEMPLATE".
C2_CreateModeOneSheetPerKey ==
    (mode = "create" /\ saved = "ok") =>
        /\ outFile.kind = "wb"
        /\ DOMAIN outFile.sheets = {CreateKey(all_data[i]) : i \in 1..Len(all_data)}
        /\ TemplateName \notin DOMAIN outFile.sheets

\* C3 as stated: once an update-mode run is past its backup step there is
\* exactly one backup file, and nothing was changed before that step.
C3_AlwaysExactlyOneBackup ==
    /\ (mode = "update" /\ pc = "backup") => workbook = NoWorkbook /\ outFile = outFile0
    /\ (mode = "update" /\ pc # "backup") => Len(backups) = 1

\* C3: an update-mode run makes one backup attempt, before the workbook is
\* loaded and before the output file is touched.  When the copy succeeds the
\* backup directory holds exactly one file of this run, the output file as it
\* was at the start, and keeps it whatever the save does; when the copy fails
\* the run goes on without a backup.  A create-mode run makes no backup.
C3_BackupBeforeMutation ==
    /\ mode # "update" => backups = <<>>
    /\ (mode = "update" /\ pc = "backup") =>
          workbook = NoWorkbook /\ outFile = outFile0 /\ backups = <<>>
    /\ (mode = "update" /\ pc # "backup") =>
          /\ Cardinality({i \in 1..Len(log) : log[i].op \in {"backup", "backup_failed"}}) = 1
          /\ BackupLine(TRUE) \in Range(log) => backups = <<outFile0>>
          /\ BackupLine(FALSE) \in Range(log) => backups = <<>>

\* The backup was made and the save failed afterwards
C3_Witness ==
    /\ mode = "update"
    /\ saved \in {"permission", "error"}
    /\ backups = <<outFile0>>
    /\ outFile0.kind = "wb"

\* C4: a row whose BATEA is empty after trimming is in no sheet in update
\* mode; in create mode it is in the sheet "UNKNOWN_BATEA" once the groups
\* are written, and in that sheet of the saved file.
C4_EmptyKeyDroppedOrSentinel ==
    \A i \in 1..Len(all_data) :
        Strip(Get(all_data[i], "BATEA", <<>>)) = <<>> =>
            /\ mode = "update" =>
                  /\ \A n \in DOMAIN workbook : ~HoldsRow(workbook[n], all_data[i])
                  /\ \A n \in DOMAIN outFile.sheets : ~HoldsRow(outFile.sheets[n], all_data[i])
            /\ (mode = "create" /\ Dispatched) =>
                  /\ UnknownBatea \in DOMAIN workbook
                  /\ HoldsRow(workbook[UnknownBatea], all_data[i])
            /\ (mode = "create" /\ saved = "ok") =>
                  /\ UnknownBatea \in DOMAIN outFile.sheets
                  /\ HoldsRow(outFile.sheets[UnknownBatea], all_data[i])

\* A create-mode run with an empty-keyed row among rows of other keys
C4_Witness ==
    /\ mode = "create"
    /\ saved = "ok"
    /\ \E i, j \in 1..Len(all_data) :
          /\ Get(all_data[i], "BATEA", <<>>) = <<>>
          /\ Get(all_data[j], "BATEA", <<>>) # <<>>

\* The number of rows after the i-th that go to the same sheet
LaterSameKey(i) ==
    Cardinality({j \in (i + 1)..Len(all_data) :
                    UpdateKey(all_data[j]) = UpdateKey(all_data[i])})

\* Row r of the sheet is the written form of data_row: its company in the
\* EMPRESA column, in black, and the thin border on columns 1 to 14
IsWrittenRow(sheet, r, data_row) ==
    LET header_map == get_header_map(sheet, HeaderRow) IN
    /\ r <= Len(sheet.rows)
    /\ <<"EMPRESA">> \in DOMAIN header_map
    /\ CellAt(sheet.rows, r, header_map[<<"EMPRESA">>]).value = TextValue(data_row["EMPRESA"])
    /\ CellAt(sheet.rows, r, header_map[<<"EMPRESA">>]).font = "black"
    /\ \A c \in 1..14 : CellAt(sheet.rows, r, c).border = "thin"

ClonedSheets == {log[i].sheet : i \in {j \in 1..Len(log) : log[j].op = "clone"}}

\* What a row written later relies on: header row, column widths, merges
Layout(sheet) ==
    [header |-> HeaderCells(sheet, HeaderRow), widths |-> sheet.widths, merged |-> sheet.merged]

\* C7: any two sheets cloned from the template in one run have the same
\* header row, column widths and merged ranges, the ones of the template,
\* whatever was written to the earlier clone before the later was made.
C7_ClonesShareLayout ==
    \A a \in ClonedSheets \cap DOMAIN workbook :
        /\ \A b \in ClonedSheets \cap DOMAIN workbook : Layout(workbook[a]) = Layout(workbook[b])
        /\ TemplateName \in DOMAIN workbook => Layout(workbook[a]) = Layout(workbook[TemplateName])

\* A second clone made after a row was written to the first
C7_Witness ==
    \E i, j, k \in 1..Len(log) :
        /\ i < j /\ j < k
        /\ log[i].op = "clone"
        /\ log[j].op = "write" /\ log[j].sheet = log[i].sheet
        /\ log[k].op = "clone" /\ log[k].sheet # log[i].sheet
        /\ {log[i].sheet, log[k].sheet} \subseteq DOMAIN workbook

\* C11: a run whose output file exists and holds a TEMPLATE sheet, and
\* which extracted a row with a category, writes rows and reaches the save
\* although PLANTILLA.xlsx is absent.
C11_TemplateSheetSufficesWithoutFile ==
    ( /\ pc = "done"
      /\ tplFile = "absent"
      /\ outFile0.kind = "wb"
      /\ TemplateName \in DOMAIN outFile0.sheets
      /\ \E i \in 1..Len(all_data) : UpdateKey(all_data[i]) # <<>> ) =>
        /\ \E i \in 1..Len(log) : log[i].op = "write"
        /\ saved # "no"

\* C13 as stated.  A crash leaves the files as they are in the state where
\* it strikes, so the property is required of every state of an update-mode
\* run past its backup step: the output file is as it was before the run or
\* as the run saved it, and the backup directory holds the file as it was.
C13_PreOrPostRunAndRecoverable ==
    (mode = "update" /\ pc # "backup") =>
        /\ outFile = outFile0 \/ (saved = "ok" /\ outFile = WorkbookFile(workbook))
        /\ outFile0 \in Range(backups)

\* C13: in an update-mode run the output file is as it was before the run
\* until the save step; after it the file is the saved workbook (save
\* succeeded), as it was (save refused, or failed before writing), or
\* unreadable (save failed after the file was opened for writing).  When the
\* backup copy succeeded, the backup holds the file as it was before the run
\* at every later point, whatever became of the output file.
C13_PreRunStateKeptByBackup ==
    (mode = "update" /\ pc # "backup") =>
        /\ saved = "no" => outFile = outFile0
        /\ saved = "ok" => outFile = WorkbookFile(workbook)
        /\ saved = "permission" => outFile = outFile0
        /\ saved = "error" => outFile \in {outFile0, CorruptFile}
        /\ BackupLine(TRUE) \in Range(log) => outFile0 \in Range(backups)

\* The save broke the output file after rows were written, and the backup
\* still holds the workbook as it was
C13_Witness ==
    /\ mode = "update"
    /\ saved = "error"
    /\ outFile = CorruptFile
    /\ outFile0.kind = "wb"
    /\ outFile0 \in Range(backups)
    /\ \E i \in 1..Len(log) : log[i].op = "write"

\* What C14 asks of one step of a run
ModeStep ==
    /\ mode # "none" => mode' = mode
    /\ mode' # mode =>
          /\ pc = "choose"
          /\ mode' \in {"update", "create"}
          /\ mode' = "update" <=> outFile.kind # "absent"
          /\ outFile = outFile0 /\ backups = <<>> /\ workbook = NoWorkbook
    /\ backups' # backups => mode = "update" /\ pc = "backup"
    /\ (outFile' # outFile /\ saved' = "no") =>
          mode = "create" /\ pc = "group" /\ outFile' = CopyOfTemplateFile
    /\ (mode = "create" /\ pc = "group") => outFile' = CopyOfTemplateFile

\* C14: the mode is set in one step, before any file or workbook is touched,
\* to update exactly when the output path exists at that moment, and keeps
\* its value from then on; the backup directory changes only in the backup
\* step of update mode; before the save the output path changes only in
\* create mode, where it receives the copy of PLANTILLA.xlsx.
C14_ModeChosenOnceByExistence == [][ModeStep]_vars

\* An update-mode run in the middle of its rows, with its backup made and
\* the output file not yet touched
C14_Witness ==
    /\ mode = "update"
    /\ pc = "rows"
    /\ ri > 0
    /\ Len(backups) = 1
    /\ outFile = outFile0

\* C15: in both modes, once the save was attempted the workbook holds no
\* TEMPLATE sheet, and a file the save wrote is that workbook; whether the
\* save succeeded, was refused because the file is locked, or failed
\* otherwise, the outcome is recorded, the run goes on to close the workbook,
\* and it is closed when the run ends.  Nothing is closed before the save.
C15_TemplateDeletedThenSavedThenClosed ==
    /\ saved # "no" =>
          /\ mode \in {"update", "create"}
          /\ TemplateName \notin DOMAIN workbook
          /\ pc \in {"close", "done"}
          /\ pc = "done" => closed
    /\ saved = "ok" => outFile = WorkbookFile(workbook)
    /\ pc = "save" => saved = "no"
    /\ closed => saved \in {"ok", "permission", "error"} /\ pc = "done"

\* A create-mode run whose save was refused, ended with its workbook closed
C15_Witness ==
    /\ mode = "create"
    /\ saved = "permission"
    /\ closed
    /\ pc = "done"
    /\ DOMAIN workbook # {}

\* The sheets of that workbook named exactly "TEMPLATE"
TemplateSheetsOf(wb) == {n \in DOMAIN wb : n = TemplateName}

\* What C17 asks of one step of a run
TemplateStep ==
    /\ pc \in {"rows", "groups"} => Cardinality(TemplateSheetsOf(workbook)) = 1
    /\ (workbook # NoWorkbook /\ DOMAIN workbook' \ DOMAIN workbook # {}) =>
          /\ pc \in {"template", "rows", "groups"}
          /\ pc = "template" => DOMAIN workbook' \ DOMAIN workbook = {TemplateName}
          /\ pc # "template" =>
                /\ Cardinality(TemplateSheetsOf(workbook)) = 1
                /\ Cardinality(TemplateSheetsOf(workbook')) = 1
                /\ \E i \in (Len(log) + 1)..Len(log') : log'[i].op = "clone"
    /\ (\E i \in (Len(log) + 1)..Len(log') : log'[i].op = "clone") =>
          /\ Cardinality(TemplateSheetsOf(workbook)) = 1
          /\ DOMAIN workbook' \ DOMAIN workbook # {}
    /\ TemplateSheetsOf(workbook') # TemplateSheetsOf(workbook) =>
          \/ pc \in {"load", "load_new", "template"} /\ TemplateSheetsOf(workbook) = {}
          \/ pc = "save" /\ saved' # "no" /\ TemplateSheetsOf(workbook') = {}

\* C17: in both modes, every step that provisions a category sheet finds
\* exactly one sheet named "TEMPLATE" in the workbook, a sheet is cloned only
\* in such a step and leaves that sheet in place, and the sheet disappears
\* from the workbook only in the step that deletes it and attempts the save.
C17_OneTemplateWhileProvisioning == [][TemplateStep]_vars

\* A sheet was cloned in an update-mode run whose file came without a
\* TEMPLATE sheet, from the one rebuilt out of PLANTILLA.xlsx
C17_Witness ==
    /\ mode = "update"
    /\ pc = "rows"
    /\ outFile0.kind = "wb"
    /\ TemplateName \notin DOMAIN outFile0.sheets
    /\ TemplateName \in DOMAIN workbook
    /\ \E i \in 1..Len(log) : log[i].op = "clone"

\* The rows of the sheet, below the header, that hold the row extracted from
\* that document
RowsHolding(sheet, data_row) ==
    {r \in (HeaderRow + 1)..Len(sheet.rows) :
        \E c \in DOMAIN sheet.rows[r] :
            sheet.rows[r][c].value = TextValue(data_row["EMPRESA"])}

\* C19: after a save that succeeded, every extracted row with a non-empty
\* trimmed key, whatever the key, is in the saved workbook exactly once: in
\* one row of the sheet named like its key and in no other sheet.
C19_EveryKeyedRowOnceInItsSheet ==
    saved = "ok" =>
        \A i \in 1..Len(all_data) :
            LET k == UpdateKey(all_data[i]) IN
            k # <<>> =>
                /\ k \in DOMAIN outFile.sheets
                /\ Cardinality(RowsHolding(outFile.sheets[k], all_data[i])) = 1
                /\ \A n \in DOMAIN outFile.sheets \ {k} :
                      RowsHolding(outFile.sheets[n], all_data[i]) = {}

\* The number of rows among the first n extracted that go to that sheet
WrittenTo(name, n) == Cardinality({i \in 1..n : UpdateKey(all_data[i]) = name})

\* The sheet `now` is the sheet `before` with w rows inserted below the
\* header: the rows down to the header are as they were, and every data row
\* is w rows lower, as it was
ShiftedBy(before, now, w) ==
    /\ Len(now.rows) = Len(before.rows) + w
    /\ \A r \in 1..HeaderRow : now.rows[r] = before.rows[r]
    /\ \A r \in (HeaderRow + 1)..Len(before.rows) : now.rows[r + w] = before.rows[r]

---------------------------------------------------------------------------
(* A batch with documents that fail: main on a folder where a document may  *)
(* not open and a field of a document may not be readable                   *)

\* A document in which PyMuPDF fails on the areas of the named fields
DamagedDocument(i, b, field_names) == [Document(i, b) EXCEPT !.damaged = field_names]

BatchChoices ==
    { [opens |-> TRUE, batea |-> <<"A">>, damaged |-> {}],
      [opens |-> TRUE, batea |-> <<"B">>, damaged |-> {}],
      [opens |-> FALSE, batea |-> <<>>, damaged |-> {}],
      [opens |-> TRUE, batea |-> <<"A">>, damaged |-> {"FECHA"}],
      [opens |-> TRUE, batea |-> <<"A">>, damaged |-> {"BATEA", "KG NETOS"}] }

MakeBatchDocument(i, choice) ==
    IF choice.opens THEN DamagedDocument(i, choice.batea, choice.damaged)
    ELSE BrokenDocument(i)

InitBatch ==
    /\ pc = "extract"
    /\ \E n \in 1..MaxDocs : \E ch \in [1..n -> BatchChoices] :
          docs = [i \in 1..n |-> MakeBatchDocument(i, ch[i])]
    /\ di = 0
    /\ all_data = <<>>
    /\ tplFile = "good"
    /\ outFile \in {NoFile, WorkbookFile((<<"A">> :> OldSheet) @@ (TemplateName :> TemplateSheet))}
    /\ outFile0 = outFile
    /\ backups = <<>>
    /\ mode = "none"
    /\ workbook = NoWorkbook
    /\ data_by_batea = <<>>
    /\ ri = 0
    /\ saved = "no"
    /\ closed = FALSE
    /\ log = <<>>
    /\ fin = NoPure
    /\ fout = NoPure
    /\ prev = NoRun
    /\ gui = NoGui

SpecBatch == InitBatch /\ [][Next]_vars

\* The text the program is to find for that field in that document
ExpectedText(doc, f) ==
    LET t == IF f \in doc.damaged THEN ErrorText ELSE CleanNewlines(Strip(doc.text[f]))
    IN IF f = "FECHA" THEN FirstToken(t) ELSE t

\* The rows of all_data that come from that document
RowsOf(doc) == {k \in 1..Len(all_data) : all_data[k]["Source File"] = doc.name}

\* The lines that report a row of that document written to that sheet
WritesOf(doc, sheet) ==
    {k \in 1..Len(log) : log[k] = [op |-> "write", src |-> doc.name, sheet |-> sheet]}

\* C12: whatever documents of the folder fail to open and whatever fields of
\* a document fail to be read, every document that opens and was processed
\* has exactly one extracted row, with "ERROR" in the fields that failed and
\* the text of the document in the others; and once the loop over the rows or
\* groups is over, that row was written once, to the sheet of its category,
\* and is in that sheet.
C12_LocalFailuresDoNotAbortBatch ==
    \A i \in 1..di :
        docs[i].opens =>
            /\ Cardinality(RowsOf(docs[i])) = 1
            /\ \A k \in RowsOf(docs[i]) :
                  /\ \A f \in DOMAIN docs[i].text : all_data[k][f] = ExpectedText(docs[i], f)
                  /\ (Dispatched /\ mode \in {"update", "create"}) =>
                        LET batea == ExpectedText(docs[i], "BATEA") IN
                        /\ Cardinality(WritesOf(docs[i], batea)) = 1
                        /\ batea \in DOMAIN workbook
                        /\ HoldsRow(workbook[batea], all_data[k])

\* A document that does not open, then one with two unreadable fields, then
\* a sound one, whose row was written
C12_Witness ==
    /\ Dispatched
    /\ Len(docs) = 3
    /\ ~docs[1].opens
    /\ docs[2].damaged = {"BATEA", "KG NETOS"}
    /\ docs[3].opens /\ docs[3].damaged = {}
    /\ WritesOf(docs[3], <<"A">>) # {}
    /\ WritesOf(docs[2], ErrorText) # {}

---------------------------------------------------------------------------
(* code_gui.py: the window, its start button and the worker thread that     *)
(* runs run_main_logic.  The helper functions of code_gui.py (lines 45 to   *)
(* 190) are those of code_base.py, statement for statement; the body of     *)
(* run_main_logic is translated here from its own text.  The worker keeps   *)
(* its state and the files it writes in the record gui; the PDF folder and  *)
(* PLANTILLA.xlsx are read from docs and tplFile.                           *)

MaxRuns == 2

GuiMainVars ==
    <<pc, docs, di, all_data, tplFile, outFile, outFile0, backups, mode, workbook,
      data_by_batea, ri, saved, closed, log, fin, fout, prev>>

\* The positions of run_main_logic inside its try block
GuiRunning ==
    {"extract", "choose", "backup", "load", "template", "rows", "group", "load_new",
     "groups", "save", "close"}

\* The worker as threading.Thread(target=self.run_main_logic) starts it: at
\* the top of the function, its locals unset, no message box open
FreshWorker(g) ==
    [g EXCEPT !.pc = "extract", !.dialog = "none", !.di = 0, !.all_data = <<>>,
              !.mode = "none", !.workbook = NoWorkbook, !.data_by_batea = <<>>,
              !.ri = 0, !.saved = "no", !.closed = FALSE, !.log = <<>>]

\* A click handler that starts the thread and leaves the button as it is
start_processing_thread_enabled(g, valid) ==
    IF ~valid THEN g
    ELSE [FreshWorker(g) EXCEPT !.threads = @ + 1, !.runs = @ + 1]

\* start_processing_thread: the paths are checked (an error box and nothing
\* else when they are not valid), the button is disabled, the thread is started
start_processing_thread(g, valid) ==
    IF ~valid THEN g
    ELSE [FreshWorker(g) EXCEPT !.button = "disabled", !.threads = @ + 1, !.runs = @ + 1]

\* A click on the start button.  Tk delivers it only to an enabled button.
GuiStart ==
    /\ gui.button = "normal"
    /\ gui.runs < MaxRuns
    /\ \E valid \in BOOLEAN : gui' = start_processing_thread(gui, valid)
    /\ UNCHANGED GuiMainVars

\* One iteration of `for filename in pdf_files`
GuiProcessPdf ==
    /\ gui.pc = "extract"
    /\ gui.di < Len(docs)
    /\ LET doc == docs[gui.di + 1]
           r == extract_data_from_pdf(doc, ConfigFields)
       IN gui' = [gui EXCEPT
                    !.all_data = IF r.ok /\ DOMAIN r.data # {}
                                 THEN Append(@, ("Source File" :> doc.name)
                                         @@ [r.data EXCEPT !["FECHA"] = FirstToken(@)])
                                 ELSE @,
                    !.di = @ + 1]
    /\ UNCHANGED GuiMainVars

\* if not pdf_files: return; if not all_data: return;
\* if not os.path.exists(template_path): return
GuiCheckInputs ==
    /\ gui.pc = "extract"
    /\ gui.di = Len(docs)
    /\ gui' = IF docs = <<>> THEN [gui EXCEPT !.dialog = "no_files", !.pc = "finally"]
              ELSE IF gui.all_data = <<>>
              THEN [gui EXCEPT !.dialog = "no_data", !.pc = "finally"]
              ELSE IF tplFile = "absent"
              THEN [gui EXCEPT !.dialog = "template_error", !.pc = "finally"]
              ELSE [gui EXCEPT !.pc = "choose"]
    /\ UNCHANGED GuiMainVars

\* if os.path.exists(output_filename)
GuiChooseMode ==
    /\ gui.pc = "choose"
    /\ gui' = IF gui.outFile.kind # "absent"
              THEN [gui EXCEPT !.mode = "update", !.pc = "backup"]
              ELSE [gui EXCEPT !.mode = "create", !.pc = "group"]
    /\ UNCHANGED GuiMainVars

\* The backup try block
GuiBackup ==
    /\ gui.pc = "backup"
    /\ \E copied \in BOOLEAN :
          gui' = [gui EXCEPT
                    !.backups = IF copied THEN Append(@, gui.outFile) ELSE @,
                    !.log = Append(@, BackupLine(copied)),
                    !.pc = "load"]
    /\ UNCHANGED GuiMainVars

\* workbook = load_workbook(output_filename), or a message and return
GuiLoadExisting ==
    /\ gui.pc = "load"
    /\ gui' = IF gui.outFile.kind = "wb"
              THEN [gui EXCEPT !.workbook = gui.outFile.sheets, !.pc = "template"]
              ELSE [gui EXCEPT !.dialog = "file_error", !.pc = "finally"]
    /\ UNCHANGED GuiMainVars

\* if "TEMPLATE" not in workbook.sheetnames: rebuild it, or a message and return
GuiEnsureTemplate ==
    /\ gui.pc = "template"
    /\ gui' = IF TemplateName \in sheetnames(gui.workbook)
              THEN [gui EXCEPT !.pc = "rows"]
              ELSE IF tplFile # "good"
              THEN [gui EXCEPT !.dialog = "template_error", !.pc = "finally"]
              ELSE [gui EXCEPT
                      !.workbook = (TemplateName :>
                                       copy_sheet_properties(ActiveSheet(TemplateFileSheets)))
                                   @@ @,
                      !.pc = "rows"]
    /\ UNCHANGED GuiMainVars

\* The body of `for data_row in all_data` of run_main_logic (update mode)
GuiUpdateIteration(wb, data_row) ==
    LET batea == Strip(Get(data_row, "BATEA", <<>>))
        r == get_or_create_sheet(wb, batea, TemplateName)
    IN IF batea = <<>>
       THEN [wb |-> wb, lines |-> <<SkipLine(data_row["Source File"])>>]
       ELSE IF r.sheet = NoSheet
       THEN [wb |-> wb, lines |-> <<SkipLine(data_row["Source File"])>>]
       ELSE [wb |-> [r.wb EXCEPT ![r.sheet] =
                        write_data_to_sheet(@, get_header_map(@, 4), data_row, 5)],
             lines |-> ProvisionLines(wb, batea) \o <<WriteLine(data_row, batea)>>]

GuiUpdateRow ==
    /\ gui.pc = "rows"
    /\ gui.ri < Len(gui.all_data)
    /\ LET it == GuiUpdateIteration(gui.workbook, gui.all_data[gui.ri + 1])
       IN gui' = [gui EXCEPT !.workbook = it.wb,
                             !.log = @ \o it.lines,
                             !.ri = @ + 1,
                             !.pc = IF gui.ri + 1 = Len(gui.all_data) THEN "save" ELSE "rows"]
    /\ UNCHANGED GuiMainVars

\* A grouping that keeps the empty key
RECURSIVE GuiGroupKeepingEmptyKey(_, _, _)
GuiGroupKeepingEmptyKey(rows, k, groups) ==
    IF k > Len(rows) THEN groups
    ELSE LET batea == Strip(Get(rows[k], "BATEA", UnknownBatea))
             at == {g \in 1..Len(groups) : groups[g].batea = batea}
         IN GuiGroupKeepingEmptyKey(rows, k + 1,
                IF at = {} THEN Append(groups, [batea |-> batea, rows |-> <<rows[k]>>])
                ELSE [g \in 1..Len(groups) |->
                        IF g \in at THEN [groups[g] EXCEPT !.rows = Append(@, rows[k])]
                        ELSE groups[g]])

\* The grouping loop of run_main_logic (create mode): data_by_batea as the
\* list of its items, in insertion order
RECURSIVE GuiGroup(_, _, _)
GuiGroup(rows, k, groups) ==
    IF k > Len(rows) THEN groups
    ELSE LET stripped == Strip(Get(rows[k], "BATEA", UnknownBatea))
             batea == IF stripped = <<>> THEN UnknownBatea ELSE stripped
             at == {g \in 1..Len(groups) : groups[g].batea = batea}
         IN GuiGroup(rows, k + 1,
                IF at = {} THEN Append(groups, [batea |-> batea, rows |-> <<rows[k]>>])
                ELSE [g \in 1..Len(groups) |->
                        IF g \in at THEN [groups[g] EXCEPT !.rows = Append(@, rows[k])]
                        ELSE groups[g]])

\* The grouping, then shutil.copy(template_path, output_filename)
GuiGroupAndCopy ==
    /\ gui.pc = "group"
    /\ gui' = [gui EXCEPT !.data_by_batea = GuiGroup(gui.all_data, 1, <<>>),
                          !.outFile = CopyOfTemplateFile,
                          !.pc = "load_new"]
    /\ UNCHANGED GuiMainVars

\* workbook = load_workbook(output_filename); workbook.active.title = "TEMPLATE"
GuiLoadNew ==
    /\ gui.pc = "load_new"
    /\ gui' = IF gui.outFile.kind = "wb"
              THEN [gui EXCEPT !.workbook = RenameActive(gui.outFile.sheets, TemplateName),
                               !.pc = "groups"]
              ELSE [gui EXCEPT !.dialog = "file_error", !.pc = "finally"]
    /\ UNCHANGED GuiMainVars

\* for data_row in batea_data: write_data_to_sheet(sheet, header_map, ...)
RECURSIVE GuiWriteRows(_, _, _, _)
GuiWriteRows(sheet, header_map, batea_data, k) ==
    IF k > Len(batea_data) THEN sheet
    ELSE GuiWriteRows(write_data_to_sheet(sheet, header_map, batea_data[k], 5),
                      header_map, batea_data, k + 1)

\* The body of `for batea_name, batea_data in data_by_batea.items()`
GuiCreateIteration(wb, group) ==
    LET r == get_or_create_sheet(wb, group.batea, TemplateName)
    IN IF r.sheet = NoSheet
       THEN [wb |-> wb, lines |-> <<SkipLine(group.batea)>>]
       ELSE [wb |-> [r.wb EXCEPT ![r.sheet] =
                        GuiWriteRows(@, get_header_map(@, 4), group.rows, 1)],
             lines |-> ProvisionLines(wb, group.batea)
                       \o [k \in 1..Len(group.rows) |-> WriteLine(group.rows[k], group.batea)]]

GuiCreateGroup ==
    /\ gui.pc = "groups"
    /\ gui.ri < Len(gui.data_by_batea)
    /\ LET it == GuiCreateIteration(gui.workbook, gui.data_by_batea[gui.ri + 1])
       IN gui' = [gui EXCEPT !.workbook = it.wb,
                             !.log = @ \o it.lines,
                             !.ri = @ + 1,
                             !.pc = IF gui.ri + 1 = Len(gui.data_by_batea)
                                    THEN "save" ELSE "groups"]
    /\ UNCHANGED GuiMainVars

\* The message box of each outcome of the save
SaveDialog(outcome) ==
    CASE outcome = "ok" -> "success"
      [] outcome = "permission" -> "permission_error"
      [] outcome = "error" -> "save_error"

\* workbook.save(output_filename) on the file the worker writes: as for main,
\* a locked file is left alone, any other error may leave it broken
GuiSaveOutcomes(wb, file) ==
    IF DOMAIN wb = {}
    THEN {[saved |-> "error", file |-> CorruptFile]}
    ELSE {[saved |-> "ok", file |-> WorkbookFile(wb)],
          [saved |-> "permission", file |-> file],
          [saved |-> "error", file |-> file],
          [saved |-> "error", file |-> CorruptFile]}

\* The try block of step 4: remove the template sheet, save, tell the user
GuiSaveWorkbook ==
    /\ gui.pc = "save"
    /\ LET wb == IF TemplateName \in sheetnames(gui.workbook)
                 THEN RemoveSheet(gui.workbook, TemplateName)
                 ELSE gui.workbook
       IN \E o \in GuiSaveOutcomes(wb, gui.outFile) :
             gui' = [gui EXCEPT !.workbook = wb,
                                !.saved = o.saved,
                                !.outFile = o.file,
                                !.dialog = SaveDialog(o.saved),
                                !.pc = "close"]
    /\ UNCHANGED GuiMainVars

\* workbook.close()
GuiCloseWorkbook ==
    /\ gui.pc = "close"
    /\ gui' = [gui EXCEPT !.closed = TRUE, !.pc = "finally"]
    /\ UNCHANGED GuiMainVars

\* except Exception: any statement of the try block may raise something the
\* inner handlers do not catch; the traceback is shown and the run is over
GuiUnexpected ==
    /\ gui.pc \in GuiRunning
    /\ gui' = [gui EXCEPT !.dialog = "critical_error", !.pc = "finally"]
    /\ UNCHANGED GuiMainVars

\* The worker after its function returned: its locals are gone, its message
\* boxes were dismissed; the output file and the backups stay
EndedWorker(g) == [FreshWorker(g) EXCEPT !.pc = "idle"]

\* finally: self.root.after(0, self.enable_button); the function returns and
\* the thread ends
GuiFinally ==
    /\ gui.pc = "finally"
    /\ gui' = [EndedWorker(gui) EXCEPT !.pending = @ + 1, !.threads = @ - 1]
    /\ UNCHANGED GuiMainVars

\* enable_button, called by the main loop for a callback root.after queued
enable_button ==
    /\ gui.pending > 0
    /\ gui' = [gui EXCEPT !.button = "normal", !.pending = @ - 1]
    /\ UNCHANGED GuiMainVars

\* The steps of the worker thread
GuiWorker ==
    \/ GuiProcessPdf
    \/ GuiCheckInputs
    \/ GuiChooseMode
    \/ GuiBackup
    \/ GuiLoadExisting
    \/ GuiEnsureTemplate
    \/ GuiUpdateRow
    \/ GuiGroupAndCopy
    \/ GuiLoadNew
    \/ GuiCreateGroup
    \/ GuiSaveWorkbook
    \/ GuiCloseWorkbook
    \/ GuiFinally

NextGui ==
    \/ GuiStart
    \/ GuiWorker
    \/ GuiUnexpected
    \/ enable_button

\* The window as App.__init__ leaves it, with that file at the output path
GuiReady(file) == [NoGui EXCEPT !.button = "normal", !.outFile = file]

\* The folders the user may select
GuiFolders ==
    { <<>>,
      <<BrokenDocument(1)>>,
      <<Document(1, <<"A">>)>>,
      <<Document(1, <<"A">>), Document(2, <<>>)>>,
      <<Document(1, <<"B">>), BrokenDocument(2), Document(3, <<"A">>)>> }

\* code_gui.py is started; main of code_base.py is not part of this program
InitGui ==
    /\ pc = "gui"
    /\ docs \in GuiFolders
    /\ di = 0
    /\ all_data = <<>>
    /\ tplFile \in {"absent", "good", "corrupt"}
    /\ outFile \in {NoFile, CorruptFile, WorkbookFile((<<"A">> :> OldSheet))}
    /\ outFile0 = outFile
    /\ backups = <<>>
    /\ mode = "none"
    /\ workbook = NoWorkbook
    /\ data_by_batea = <<>>
    /\ ri = 0
    /\ saved = "no"
    /\ closed = FALSE
    /\ log = <<>>
    /\ fin = NoPure
    /\ fout = NoPure
    /\ prev = NoRun
    /\ gui = GuiReady(outFile)

\* The steps of the worker outside the two loops that write rows
GuiControlSteps ==
    \/ GuiProcessPdf
    \/ GuiCheckInputs
    \/ GuiChooseMode
    \/ GuiBackup
    \/ GuiLoadExisting
    \/ GuiEnsureTemplate
    \/ GuiGroupAndCopy
    \/ GuiLoadNew
    \/ GuiSaveWorkbook
    \/ GuiCloseWorkbook
    \/ GuiFinally

\* Weak fairness of the two loops that write rows, WF_vars(GuiUpdateRow) and
\* WF_vars(GuiCreateGroup), spelled out with the condition under which each
\* loop has an iteration left
GuiLoopsGoOn ==
    /\ \/ []<>~(gui.pc = "rows" /\ gui.ri < Len(gui.all_data))
       \/ []<><<GuiUpdateRow>>_vars
    /\ \/ []<>~(gui.pc = "groups" /\ gui.ri < Len(gui.data_by_batea))
       \/ []<><<GuiCreateGroup>>_vars

\* The worker thread keeps running until its function returns, and the main
\* loop of Tk runs the callbacks it is given
SpecGui ==
    /\ InitGui /\ [][NextGui]_vars
    /\ WF_vars(GuiControlSteps) /\ GuiLoopsGoOn /\ WF_vars(enable_button)

\* A run of run_main_logic is in progress
InProgress == gui.pc # "idle"

\* C21: in the window, the number of worker threads is never above one; a
\* worker is in progress exactly while run_main_logic has not returned, and
\* the start button is disabled all that time; the button is enabled only
\* when no run is in progress; and every run, however it ends (saved, early
\* return, save error, unexpected exception), leads to the button enabled.
C21_OneRunAndButtonReenabled ==
    /\ []( /\ gui.threads <= 1
           /\ gui.threads = 1 <=> InProgress
           /\ InProgress => gui.button = "disabled"
           /\ gui.button = "normal" => gui.threads = 0 /\ gui.pending = 0
           /\ gui.pending <= 1 )
    /\ (gui.button = "disabled" ~> gui.button = "normal")

\* A second run is in progress, launched after the first one ended and the
\* button came back
C21_Witness ==
    /\ gui.runs = 2
    /\ gui.threads = 1
    /\ gui.button = "disabled"
    /\ gui.pc = "save"

---------------------------------------------------------------------------
(* Two runs of main, one after the other, on the same folder and the same   *)
(* output path                                                              *)

\* main is started again after it returned: what the first run left at the
\* output path and in .old is there, everything else starts afresh
RunAgain ==
    /\ pc = "done"
    /\ ~prev.ran
    /\ prev' = [ran |-> TRUE, mode |-> mode, saved |-> saved, file |-> outFile]
    /\ pc' = "extract"
    /\ di' = 0
    /\ all_data' = <<>>
    /\ outFile0' = outFile
    /\ mode' = "none"
    /\ workbook' = NoWorkbook
    /\ data_by_batea' = <<>>
    /\ ri' = 0
    /\ saved' = "no"
    /\ closed' = FALSE
    /\ log' = <<>>
    /\ UNCHANGED <<docs, tplFile, outFile, backups, fin, fout, gui>>

\* The documents of the folder the two runs read
TwoRunChoices ==
    {[opens |-> TRUE, batea |-> b] : b \in {<<>>, <<"A">>, <<"TEMPLATE">>}}
    \cup {[opens |-> FALSE, batea |-> <<>>]}

InitTwoRuns ==
    /\ pc = "extract"
    /\ \E n \in 1..2 : \E ch \in [1..n -> TwoRunChoices] :
          docs = [i \in 1..n |-> MakeDocument(i, ch[i])]
    /\ di = 0
    /\ all_data = <<>>
    /\ tplFile \in {"absent", "good", "corrupt"}
    /\ outFile \in {NoFile, WorkbookFile((<<"A">> :> OldSheet))}
    /\ outFile0 = outFile
    /\ backups = <<>>
    /\ mode = "none"
    /\ workbook = NoWorkbook
    /\ data_by_batea = <<>>
    /\ ri = 0
    /\ saved = "no"
    /\ closed = FALSE
    /\ log = <<>>
    /\ fin = NoPure
    /\ fout = NoPure
    /\ prev = NoRun
    /\ gui = NoGui

NextTwoRuns == Next \/ RunAgain

SpecTwoRuns == InitTwoRuns /\ [][NextTwoRuns]_vars

\* The first run chose create mode and did not save
CreateRunFailed == prev.ran /\ prev.mode = "create" /\ prev.saved # "ok"

\* C22 as stated: after a first run in create mode that did not save, the
\* output path holds the unmodified copy of PLANTILLA.xlsx, and the second
\* run, once it chooses, chooses update mode.
C22_TemplateCopyLeftThenUpdate ==
    CreateRunFailed =>
        /\ prev.file = CopyOfTemplateFile
        /\ outFile0 = prev.file
        /\ mode \in {"none", "update"}

\* C22, amended: after a first run in create mode that did not save, the
\* output path holds a file, so the second run, once it chooses, chooses
\* update mode.  The file is the unmodified copy of PLANTILLA.xlsx when the
\* workbook could not be loaded or the save was refused before writing; after
\* any other save error it is that copy or what the interrupted save left.
C22_SomeFileLeftThenUpdate ==
    CreateRunFailed =>
        /\ prev.file.kind # "absent"
        /\ prev.saved \in {"no", "permission"} => prev.file = CopyOfTemplateFile
        /\ prev.saved = "error" => prev.file \in {CopyOfTemplateFile, CorruptFile}
        /\ outFile0 = prev.file
        /\ mode \in {"none", "update"}

\* A first run in create mode whose save broke off, and a second run that
\* chose update mode and found a file it cannot load
C22_Witness ==
    /\ CreateRunFailed
    /\ prev.saved = "error"
    /\ prev.file = CorruptFile
    /\ tplFile = "good"
    /\ mode = "update"
    /\ pc = "done"

---------------------------------------------------------------------------
(* main of code_base.py and run_main_logic of code_gui.py on the same       *)
(* folder, the same PLANTILLA.xlsx and the same file at the output path:    *)
(* main runs first, then the window's worker runs on its own copy of the    *)
(* file main found                                                          *)

EquivChoices ==
    {[opens |-> TRUE, batea |-> b] : b \in {<<>>, <<"A">>, <<"B">>, <<"TEMPLATE">>}}
    \cup {[opens |-> FALSE, batea |-> <<>>]}

EquivOutputFiles ==
    { NoFile,
      WorkbookFile((<<"A">> :> OldSheet)),
      WorkbookFile((<<"A">> :> TwoRowSheet) @@ (TemplateName :> TemplateSheet)) }

InitEquiv ==
    /\ pc = "extract"
    /\ \E n \in 0..MaxDocs : \E ch \in [1..n -> EquivChoices] :
          docs = [i \in 1..n |-> MakeDocument(i, ch[i])]
    /\ di = 0
    /\ all_data = <<>>
    /\ tplFile \in {"absent", "good", "corrupt"}
    /\ outFile \in EquivOutputFiles
    /\ outFile0 = outFile
    /\ backups = <<>>
    /\ mode = "none"
    /\ workbook = NoWorkbook
    /\ data_by_batea = <<>>
    /\ ri = 0
    /\ saved = "no"
    /\ closed = FALSE
    /\ log = <<>>
    /\ fin = NoPure
    /\ fout = NoPure
    /\ prev = NoRun
    /\ gui = GuiReady(outFile)

BackupLines(lines) ==
    {lines[k] : k \in {j \in DOMAIN lines : lines[j] \in {BackupLine(TRUE), BackupLine(FALSE)}}}

\* The worker meets the conditions main met: the backup copy succeeds for
\* it when it did for main, and its save meets the same outcome, the file
\* broken by it or not as main's was
SameConditions(g) ==
    /\ BackupLines(log) # {} => BackupLines(g.log) \subseteq BackupLines(log)
    /\ (saved # "no" /\ g.saved # "no") =>
            /\ g.saved = saved
            /\ g.outFile.kind = outFile.kind

\* The window's run, started once main has returned
GuiAfterMain ==
    /\ pc = "done"
    /\ \/ gui.runs = 0 /\ GuiStart
       \/ GuiWorker /\ SameConditions(gui')
       \/ enable_button

NextEquiv == Next \/ GuiAfterMain

SpecEquiv == InitEquiv /\ [][NextEquiv]_vars

\* C23: when run_main_logic has reached its finally clause after main
\* returned, on the same documents, the same file at the output path, the
\* same PLANTILLA.xlsx, the same backup and save outcomes, the two took the
\* same mode, printed the same sequence of lines (sheets cloned, rows
\* written, documents skipped), hold the same workbook with the same sheets,
\* and left the same file at the output path and the same backups.
C23_MainAndGuiAgree ==
    gui.pc = "finally" =>
        /\ gui.all_data = all_data
        /\ gui.mode = mode
        /\ gui.log = log
        /\ gui.workbook = workbook
        /\ gui.saved = saved
        /\ gui.closed = closed
        /\ gui.outFile = outFile
        /\ gui.backups = backups

\* Both saved a workbook of two sheets in create mode, the first of them
\* holding two rows
C23_Witness ==
    /\ gui.pc = "finally"
    /\ gui.mode = "create"
    /\ gui.saved = "ok"
    /\ Len(gui.log) = 5
    /\ DOMAIN gui.workbook = {<<"A">>, <<"B">>}
    /\ gui.outFile = WorkbookFile(gui.workbook)

---------------------------------------------------------------------------
(* The helper functions on their own: one call on inputs drawn from a set *)

MainVars ==
    <<docs, di, all_data, tplFile, outFile, outFile0, backups, mode, workbook,
      data_by_batea, ri, saved, closed, log, prev, gui>>

\* No run of main is in progress
MainIdle ==
    /\ docs = <<>>
    /\ di = 0
    /\ all_data = <<>>
    /\ tplFile = "good"
    /\ outFile = NoFile
    /\ outFile0 = NoFile
    /\ backups = <<>>
    /\ mode = "none"
    /\ workbook = NoWorkbook
    /\ data_by_batea = <<>>
    /\ ri = 0
    /\ saved = "no"
    /\ closed = FALSE
    /\ log = <<>>
    /\ prev = NoRun
    /\ gui = NoGui

TextsUpTo(alphabet, n) == UNION {[1..k -> alphabet] : k \in 0..n}

(* extract_data_from_pdf *)

Descriptors == [name : {"FECHA", "BATEA"}, page : {0, 1}, rect : {"ok", "bad"}]

DescriptorLists == UNION {[1..k -> Descriptors] : k \in 1..MaxFields}

ExtractDocuments ==
    {[name |-> <<"1.pdf">>, opens |-> TRUE, page_count |-> n, damaged |-> {},
      text |-> ("FECHA" :> t) @@ ("BATEA" :> <<"B", "\r", "2">>)] :
        n \in {1, 2}, t \in TextsUpTo({"a", " ", "\n", "\r"}, MaxStrLen)}
    \cup {BrokenDocument(1)}

InitExtract ==
    /\ pc = "call"
    /\ MainIdle
    /\ fin \in [doc : ExtractDocuments, fields : DescriptorLists]
    /\ fout = NoPure

RunExtract ==
    /\ pc = "call"
    /\ pc' = "returned"
    /\ fout' = extract_data_from_pdf(fin.doc, fin.fields)
    /\ UNCHANGED <<MainVars, fin>>

NextExtract == RunExtract

SpecExtract == InitExtract /\ [][NextExtract]_vars

(* write_data_to_sheet *)

\* A header row without the DESCUENTO column
SheetWithoutDiscount ==
    [TemplateSheet EXCEPT !.rows[HeaderRow] = [c \in DOMAIN @ \ {9} |-> @[c]]]

BaseRow ==
    ("FECHA" :> <<"12/05/2024">>) @@ ("BATEA" :> <<"A">>) @@ ("EMPRESA" :> <<"ACME-1">>)
    @@ ("NIF EMPRESA" :> <<"A", "-", "1", "0", "2">>)
    @@ ("KG BRUTOS" :> <<"1", "5", "0", "0", ".", "5", "0">>)
    @@ ("DESCUENTO" :> <<>>) @@ ("KG NETOS" :> <<"1", "2">>)
    @@ ("Source File" :> <<"1.pdf">>)

\* The function is called with target_row = 5 by main; it is written for any
\* row, and rows above, at and below the header are drawn as well
TargetRows == {2, HeaderRow, TargetRow, 6}

\* The template with the header cells of those columns left out
SheetWithout(cols) ==
    [TemplateSheet EXCEPT !.rows[HeaderRow] = [c \in DOMAIN @ \ cols |-> @[c]]]

WriteInputs ==
    {[sheet |-> sh, data_row |-> [BaseRow EXCEPT ![f] = v], target_row |-> t] :
        sh \in {TemplateSheet, OldSheet, SheetWithoutDiscount, TwoRowSheet},
        f \in {"EMPRESA", "DESCUENTO", "KG NETOS"},
        v \in TextsUpTo({"1", "5", ".", "-", "A", " "}, MaxStrLen),
        t \in TargetRows}
    \cup
    {[sheet |-> SheetWithout(cols), data_row |-> BaseRow, target_row |-> TargetRow] :
        cols \in SUBSET DOMAIN TemplateSheet.rows[HeaderRow]}

InitWrite ==
    /\ pc = "call"
    /\ MainIdle
    /\ fin \in WriteInputs
    /\ fout = NoPure

RunWrite ==
    /\ pc = "call"
    /\ pc' = "returned"
    /\ fout' = write_data_to_sheet(fin.sheet, get_header_map(fin.sheet, HeaderRow),
                                   fin.data_row, fin.target_row)
    /\ UNCHANGED <<MainVars, fin>>

NextWrite == RunWrite

SpecWrite == InitWrite /\ [][NextWrite]_vars

(* get_or_create_sheet and the loop bodies that call it *)

\* Workbooks with and without a sheet named exactly "TEMPLATE"
ProvisionWorkbooks ==
    {wb \in {a @@ b @@ t :
                a \in {<<>>, (<<"A">> :> OldSheet), (<<"A">> :> TemplateSheet)},
                b \in {<<>>, (<<"B">> :> TemplateSheet)},
                t \in {<<>>, (TemplateName :> TemplateSheet), (<<"template">> :> TemplateSheet)}} :
        DOMAIN wb # {}}

ProvisionInputs ==
    {[wb |-> wb, data_row |-> [BaseRow EXCEPT !["BATEA"] = k]] :
        wb \in ProvisionWorkbooks,
        k \in {<<>>, <<"A">>, <<"B">>, <<"C">>, TemplateName, <<"A", " ", "B">>}}

InitProvision ==
    /\ pc = "call"
    /\ MainIdle
    /\ fin \in ProvisionInputs
    /\ fout = NoPure

RunProvision ==
    /\ pc = "call"
    /\ pc' = "returned"
    /\ fout' = [got |-> get_or_create_sheet(fin.wb, CreateKey(fin.data_row), TemplateName),
                update |-> UpdateIteration(fin.wb, fin.data_row),
                create |-> CreateIteration(fin.wb,
                              [batea |-> CreateKey(fin.data_row), rows |-> <<fin.data_row>>])]
    /\ UNCHANGED <<MainVars, fin>>

NextProvision == RunProvision

SpecProvision == InitProvision /\ [][NextProvision]_vars

---------------------------------------------------------------------------
(* Properties of the helper functions *)

\* C6: get_or_create_sheet returns the sheet named exactly like the key when
\* there is one, adding nothing; when there is none and no sheet is named
\* "TEMPLATE" it returns None and leaves the workbook as it was, and the loop
\* body of either mode then writes nothing.
C6_ExistingSheetOrNoneWithoutTemplate ==
    pc = "returned" =>
        LET wb == fin.wb
            key == CreateKey(fin.data_row)
        IN /\ key \in DOMAIN wb =>
                 /\ fout.got.sheet = key
                 /\ fout.got.wb = wb
           /\ (key \notin DOMAIN wb /\ TemplateName \notin DOMAIN wb) =>
                 /\ fout.got.sheet = NoSheet
                 /\ fout.got.wb = wb
                 /\ fout.update.wb = wb
                 /\ fout.create.wb = wb
                 /\ \A i \in 1..Len(fout.update.lines) : fout.update.lines[i].op = "skip"
                 /\ \A i \in 1..Len(fout.create.lines) : fout.create.lines[i].op = "skip"

\* The key "TEMPLATE" asked of a workbook whose only template-like sheet is
\* named "template": no exact match, no template, None
C6_Witness ==
    /\ pc = "returned"
    /\ CreateKey(fin.data_row) = TemplateName
    /\ <<"template">> \in DOMAIN fin.wb
    /\ <<"A">> \in DOMAIN fin.wb
    /\ fout.got.sheet = NoSheet
    /\ fout.update.wb = fin.wb

FieldNamesOf(fields) == {fields[k].name : k \in 1..Len(fields)}

\* The k-th descriptor is the one that decides the entry of its name
Decides(fields, k) == \A j \in (k + 1)..Len(fields) : fields[j].name # fields[k].name

\* C8: a descriptor whose page is not below the page count leaves the empty
\* string under its name, and every descriptor of the list still has its
\* entry in the extracted row.
C8_OutOfRangePageGivesEmptyText ==
    (pc = "returned" /\ fin.doc.opens) =>
        /\ fout.ok
        /\ DOMAIN fout.data = FieldNamesOf(fin.fields)
        /\ \A k \in 1..Len(fin.fields) :
              (fin.fields[k].page >= fin.doc.page_count /\ Decides(fin.fields, k)) =>
                  fout.data[fin.fields[k].name] = <<>>

\* An out-of-range descriptor followed by one that still extracted its text
C8_Witness ==
    /\ pc = "returned"
    /\ fout.ok
    /\ Len(fin.fields) = 2
    /\ fin.fields[1].page >= fin.doc.page_count
    /\ fin.fields[1].name = "FECHA"
    /\ fin.fields[2].name = "BATEA"
    /\ fout.data["FECHA"] = <<>>
    /\ fout.data["BATEA"] = <<"B", " ", "2">>

WellFormedInRange(doc, fields) ==
    \A k \in 1..Len(fields) : fields[k].rect = "ok" /\ fields[k].page < doc.page_count

\* C9: when every descriptor is well formed and on a page of the document,
\* the extracted row has exactly the descriptors' names as its keys and no
\* value holds a newline or a carriage return.
C9_OneEntryPerNameWithoutLineBreaks ==
    (pc = "returned" /\ fin.doc.opens /\ WellFormedInRange(fin.doc, fin.fields)) =>
        /\ fout.ok
        /\ DOMAIN fout.data = FieldNamesOf(fin.fields)
        /\ \A n \in DOMAIN fout.data : \A i \in 1..Len(fout.data[n]) :
              fout.data[n][i] \notin {"\n", "\r"}

\* Two well-formed descriptors, both texts with a line break inside
C9_Witness ==
    /\ pc = "returned"
    /\ WellFormedInRange(fin.doc, fin.fields)
    /\ FieldNamesOf(fin.fields) = {"FECHA", "BATEA"}
    /\ fin.doc.text["FECHA"] = <<"a", "\n", "a">>
    /\ fout.data = ("FECHA" :> <<"a", " ", "a">>) @@ ("BATEA" :> <<"B", " ", "2">>)

\* The cell of the written row under the header of that field
WrittenCell(field_name) ==
    CellAt(fout.rows, fin.target_row, get_header_map(fin.sheet, 4)[<<field_name>>])

\* C10: in the written row the cell of a field whose text is a number holds
\* that number ("1500.50" is 1500.5, "15" is 15), the cell of a field whose
\* text is not a number holds the text unchanged ("A-102"), and both cells
\* have the black font.
C10_NumbersNumericTextTextBothBlack ==
    pc = "returned" =>
        \A f \in {"NIF EMPRESA", "KG BRUTOS", "EMPRESA", "DESCUENTO", "KG NETOS"} :
            <<f>> \in DOMAIN get_header_map(fin.sheet, 4) =>
                LET v == fin.data_row[f]
                    cell == WrittenCell(f)
                IN /\ cell.font = "black"
                   /\ cell.value.t \in {"n", "s"}
                   /\ cell.value.t = "s" => cell.value.s = v
                   /\ v = <<"1", "5", "0", "0", ".", "5", "0">> =>
                         cell.value = NumValue([neg |-> FALSE, mant |-> 15005, scale |-> 1])
                   /\ v = <<"1", "5">> =>
                         cell.value = NumValue([neg |-> FALSE, mant |-> 15, scale |-> 0])
                   /\ v = <<"-", ".", "5">> =>
                         cell.value = NumValue([neg |-> TRUE, mant |-> 5, scale |-> 1])
                   /\ (\E i \in 1..Len(v) : v[i] = "A") => cell.value = TextValue(v)
                   /\ v \in {<<>>, <<".">>, <<"-">>, <<"1", " ", "5">>, <<"1", ".", ".">>, <<"5", "-">>} =>
                         cell.value = TextValue(v)

\* One row with "1500.50" stored as a number and "A-102" stored as text
C10_Witness ==
    /\ pc = "returned"
    /\ fin.data_row["KG BRUTOS"] = <<"1", "5", "0", "0", ".", "5", "0">>
    /\ fin.data_row["NIF EMPRESA"] = <<"A", "-", "1", "0", "2">>
    /\ {<<"KG BRUTOS">>, <<"NIF EMPRESA">>} \subseteq DOMAIN get_header_map(fin.sheet, 4)
    /\ WrittenCell("KG BRUTOS").value.t = "n"
    /\ WrittenCell("NIF EMPRESA").value.t = "s"
    /\ WrittenCell("KG BRUTOS").font = WrittenCell("NIF EMPRESA").font

\* C16: write_data_to_sheet with target row t leaves every row above t as it
\* was, cell by cell, and every row that was at i >= t is at i + 1 as it was;
\* the only row that differs from what the sheet held is row t.
C16_RowsShiftedNeverOverwritten ==
    pc = "returned" =>
        LET t == fin.target_row
            old == fin.sheet.rows
        IN /\ \A i \in 1..Len(old) : i < t => fout.rows[i] = old[i]
           /\ \A i \in 1..Len(old) : i >= t => i + 1 <= Len(fout.rows) /\ fout.rows[i + 1] = old[i]
           /\ Len(fout.rows) = IF t <= Len(old) THEN Len(old) + 1 ELSE t

\* A row written at 5 into a sheet with data rows at 5 and 6: both are found
\* one row lower, and row 5 holds the new company
C16_Witness ==
    /\ pc = "returned"
    /\ fin.target_row = 5
    /\ fin.sheet = TwoRowSheet
    /\ fout.rows[6] = fin.sheet.rows[5]
    /\ fout.rows[7] = fin.sheet.rows[6]
    /\ fout.rows[5] # fin.sheet.rows[5]
    /\ WrittenCell("EMPRESA").value = TextValue(fin.data_row["EMPRESA"])

\* The fields whose header the sheet has
PresentFields(header_map) ==
    {FieldOrder[k] : k \in {j \in 1..Len(FieldOrder) : <<FieldOrder[j]>> \in DOMAIN header_map}}

\* C18: whichever headers are missing from the sheet, the row is inserted
\* with its border on columns 1 to 14, every field whose header is present
\* has its value in the column of that header, and no other cell of the row
\* has a value: a field without header leaves no cell.
C18_MissingHeaderDropsOnlyThatField ==
    pc = "returned" =>
        LET t == fin.target_row
            header_map == get_header_map(fin.sheet, HeaderRow)
            present == PresentFields(header_map)
        IN /\ t <= Len(fout.rows)
           /\ \A c \in 1..14 : CellAt(fout.rows, t, c).border = "thin"
           /\ \A f \in present :
                 LET cell == CellAt(fout.rows, t, header_map[<<f>>]) IN
                 /\ cell.font = "black"
                 /\ cell.value.t \in {"s", "n"}
                 /\ cell.value.t = "s" => cell.value.s = fin.data_row[f]
                 /\ cell.value.t = "n" => cell.value.n = FloatValue(fin.data_row[f])
           /\ \A c \in DOMAIN fout.rows[t] :
                 fout.rows[t][c].value # NoneValue =>
                     \E f \in present : header_map[<<f>>] = c

\* The headers of FECHA and DESCUENTO are missing: the company and the net
\* weight are written, columns 1 and 9 stay without value
C18_Witness ==
    /\ pc = "returned"
    /\ fin.sheet = SheetWithout({1, 9})
    /\ CellAt(fout.rows, 5, 4).value = TextValue(<<"ACME-1">>)
    /\ CellAt(fout.rows, 5, 10).value = NumValue([neg |-> FALSE, mant |-> 12, scale |-> 0])
    /\ CellAt(fout.rows, 5, 1).value = NoneValue
    /\ CellAt(fout.rows, 5, 9).value = NoneValue

===========================================================================
